---- MODULE Spec2Model ----
(***************************************************************************)
(* A model of src/index.ts (get-llms-txt): the metadata parsers, the       *)
(* markup stripper, the title/description resolver, the path normalizer,   *)
(* the corpus processor (discoverFiles), the index generator               *)
(* (generateLLMsTxt) and the orchestrator (generateLlmsFiles).             *)
(*                                                                         *)
(* A JavaScript string is a sequence of one-character strings, so that the *)
(* regular expressions of the source are computed character by character.  *)
(* Paths are POSIX paths (path.sep = "/").                                 *)
(***************************************************************************)
EXTENDS Integers, Sequences, FiniteSets, TLC

VARIABLES
    pc,          \* position of the running call
    input,       \* the arguments of the call under test
    output,      \* what the call returned
    disk,        \* the filesystem: source tree, directories, written files
    mdxFiles,    \* discoverFiles: the sequence glob resolved to
    idx,         \* discoverFiles: index of the file the loop is at
    files,       \* discoverFiles: the manifest (ProcessedFile[])
    log          \* history of filesystem effects, in order

vars == <<pc, input, output, disk, mdxFiles, idx, files, log>>

-----------------------------------------------------------------------------
(* Characters and character classes of the regular expressions *)

LowerChars == {"a","b","c","d","e","f","g","h","i","j","k","l","m",
               "n","o","p","q","r","s","t","u","v","w","x","y","z"}

UpperChars == {"A","B","C","D","E","F","G","H","I","J","K","L","M",
               "N","O","P","Q","R","S","T","U","V","W","X","Y","Z"}

DigitChars == {"0","1","2","3","4","5","6","7","8","9"}

\* \w
WordChars == LowerChars \cup UpperChars \cup DigitChars \cup {"_"}

\* \s, and what String.prototype.trim removes
SpaceChars == {" ", "\t", "\n", "\r"}

\* what . does not match
LineTerminators == {"\n", "\r"}

QuoteChars == {"'", "\""}

ToUpperCase(c) ==
    CASE c = "a" -> "A" [] c = "b" -> "B" [] c = "c" -> "C" [] c = "d" -> "D"
      [] c = "e" -> "E" [] c = "f" -> "F" [] c = "g" -> "G" [] c = "h" -> "H"
      [] c = "i" -> "I" [] c = "j" -> "J" [] c = "k" -> "K" [] c = "l" -> "L"
      [] c = "m" -> "M" [] c = "n" -> "N" [] c = "o" -> "O" [] c = "p" -> "P"
      [] c = "q" -> "Q" [] c = "r" -> "R" [] c = "s" -> "S" [] c = "t" -> "T"
      [] c = "u" -> "U" [] c = "v" -> "V" [] c = "w" -> "W" [] c = "x" -> "X"
      [] c = "y" -> "Y" [] c = "z" -> "Z" [] OTHER -> c

-----------------------------------------------------------------------------
(* String primitives *)

\* F(v), with the argument v evaluated once, before F is applied to it
Once(v, F(_)) == CHOOSE r \in {F(x) : x \in {v}} : TRUE

Min(S) == CHOOSE x \in S : \A y \in S : x <= y

Max(S) == CHOOSE x \in S : \A y \in S : x >= y

\* s.slice(a - 1, b): the characters at positions a..b (1-based, inclusive)
Slice(s, a, b) == IF a > b THEN <<>> ELSE SubSeq(s, a, b)

\* s.startsWith(p, at - 1)
MatchesAt(s, at, p) ==
    /\ at >= 1
    /\ at + Len(p) - 1 <= Len(s)
    /\ \A k \in 1..Len(p) : s[at + k - 1] = p[k]

StartsWith(s, p) == MatchesAt(s, 1, p)

EndsWith(s, p) == Len(p) <= Len(s) /\ MatchesAt(s, Len(s) - Len(p) + 1, p)

\* the end of the longest run of characters of class C that starts at position at
\* (at - 1 when the run is empty)
RunEnd(s, at, C) ==
    IF at > Len(s) THEN at - 1
    ELSE IF \A k \in at..Len(s) : s[k] \in C THEN Len(s)
    ELSE Min({k \in at..Len(s) : s[k] \notin C}) - 1

\* String.prototype.trim
Trim(s) ==
    LET keep == {k \in 1..Len(s) : s[k] \notin SpaceChars}
    IN  IF keep = {} THEN <<>> ELSE SubSeq(s, Min(keep), Max(keep))

\* s.replace(/['"]/g, '') and the like: drop every character of class C
Without(s, C) == SelectSeq(s, LAMBDA c : c \notin C)

\* s.split(sep) for a one-character separator
Split(s, sep) ==
    LET cuts == {k \in 1..Len(s) : s[k] = sep}
        n == Cardinality(cuts)
        \* position of the j-th separator; 0 before the first, Len(s)+1 after the last
        cut(j) == IF j = 0 THEN 0
                  ELSE IF j = n + 1 THEN Len(s) + 1
                  ELSE CHOOSE k \in cuts : Cardinality({c \in cuts : c < k}) = j - 1
    IN  [j \in 1..(n + 1) |-> Slice(s, cut(j - 1) + 1, cut(j) - 1)]

\* parts.join(sep)
RECURSIVE Join(_, _)
Join(parts, sep) ==
    IF parts = <<>> THEN <<>>
    ELSE IF Len(parts) = 1 THEN parts[1]
    ELSE parts[1] \o sep \o Join(Tail(parts), sep)

\* s.replace(/re/g, ''): remove every leftmost, non-overlapping match, where
\* MatchEnd(s, p) is the last position of the match that starts at p (0: none).
\* No pattern of the source matches the empty string.
ReplaceAll(s, MatchEnd(_, _)) ==
    LET n == Len(s)
        out[p \in 1..(n + 1)] ==
            IF p > n THEN <<>>
            ELSE LET e == MatchEnd(s, p)
                 IN  IF e >= p THEN out[e + 1] ELSE <<s[p]>> \o out[p + 1]
    IN  out[1]

\* s.replace(/re/, ''): remove the leftmost match only
ReplaceFirst(s, MatchEnd(_, _)) ==
    LET starts == {p \in 1..Len(s) : MatchEnd(s, p) >= p}
    IN  IF starts = {} THEN s
        ELSE LET p == Min(starts)
             IN  Slice(s, 1, p - 1) \o Slice(s, MatchEnd(s, p) + 1, Len(s))

-----------------------------------------------------------------------------
(* JavaScript values held by FileMetadata: a string or an array of strings *)

Str(s) == [kind |-> "string", val |-> s]

Arr(a) == [kind |-> "array", val |-> a]

Undefined == [kind |-> "undefined"]

\* JavaScript truthiness: undefined and '' are falsy, every array is truthy
Truthy(v) == v.kind = "array" \/ (v.kind = "string" /\ v.val # <<>>)

\* metadata.key as a condition: the key is present and its value truthy
Has(metadata, key) == key \in DOMAIN metadata /\ Truthy(metadata[key])

\* `${v}`: an array renders as its elements joined by commas
RenderValue(v) == IF v.kind = "array" THEN Join(v.val, <<",">>) ELSE v.val

-----------------------------------------------------------------------------
(* Node's path module, POSIX flavour, on paths without a trailing slash *)

Slashes(p) == {k \in 1..Len(p) : p[k] = "/"}

\* path.dirname
Dirname(p) ==
    IF Slashes(p) = {} THEN <<".">>
    ELSE IF Max(Slashes(p)) = 1 THEN <<"/">>
    ELSE Slice(p, 1, Max(Slashes(p)) - 1)

\* path.basename(p)
LastSegment(p) ==
    IF Slashes(p) = {} THEN p ELSE Slice(p, Max(Slashes(p)) + 1, Len(p))

\* path.basename(p, ext)
Basename(p, ext) ==
    LET base == LastSegment(p)
    IN  IF ext = <<>> \/ Len(ext) > Len(p) THEN base
        ELSE IF ext = p THEN <<>>
        ELSE IF EndsWith(base, ext) /\ base # ext
             THEN Slice(base, 1, Len(base) - Len(ext))
             ELSE base

\* path.extname
Extname(p) ==
    LET base == LastSegment(p)
        dots == {k \in 1..Len(base) : base[k] = "."}
    IN  IF dots = {} \/ base = <<".", ".">> THEN <<>>
        ELSE IF Max(dots) = 1 THEN <<>>
        ELSE Slice(base, Max(dots), Len(base))

\* path.normalize on the segments of a path: "." and empty segments go, ".."
\* takes the segment before it away
NormalizeSegment(acc, h, absolute) ==
    IF h = <<>> \/ h = <<".">> THEN acc
    ELSE IF h # <<".", ".">> THEN Append(acc, h)
    ELSE IF acc # <<>> /\ acc[Len(acc)] # <<".", ".">> THEN Slice(acc, 1, Len(acc) - 1)
    ELSE IF absolute THEN acc
    ELSE Append(acc, h)

RECURSIVE NormalizeSegments(_, _, _, _)
NormalizeSegments(segs, i, acc, absolute) ==
    IF i > Len(segs) THEN acc
    ELSE Once(NormalizeSegment(acc, segs[i], absolute),
              LAMBDA next : NormalizeSegments(segs, i + 1, next, absolute))

\* path.join(parts[1], parts[2], ...)
PathJoin(parts) ==
    Once(Join(SelectSeq(parts, LAMBDA x : x # <<>>), <<"/">>), LAMBDA joined :
        LET absolute == joined # <<>> /\ joined[1] = "/"
        IN  Once(Split(joined, "/"), LAMBDA segs :
            Once(Join(NormalizeSegments(segs, 1, <<>>, absolute), <<"/">>), LAMBDA body :
                IF absolute THEN <<"/">> \o body
                ELSE IF body = <<>> THEN <<".">>
                ELSE body)))

-----------------------------------------------------------------------------
(* Path normalizer: the category and the URL path of discoverFiles *)

DotMd == <<".", "m", "d">>

DotMdx == <<".", "m", "d", "x">>

Locales == {<<"e", "n">>, <<"r", "u">>}

IndexNames == {<<"i", "n", "d", "e", "x">>, <<"_", "i", "n", "d", "e", "x">>}

Other == <<"o", "t", "h", "e", "r">>

\* const parts = file.split(path.sep); const category = parts[0] || 'other'
Category(file) ==
    LET parts == Split(file, "/")
    IN  IF parts[1] # <<>> THEN parts[1] ELSE Other

\* file.replace(/\.(en|ru)\.(mdx|md)$/, '.$2')
RemoveLocale(file) ==
    LET hits == {x \in Locales \X {DotMd, DotMdx} : EndsWith(file, <<".">> \o x[1] \o x[2])}
    IN  IF hits = {} THEN file
        ELSE LET x == CHOOSE h \in hits : TRUE
             IN  Slice(file, 1, Len(file) - Len(x[1]) - Len(x[2]) - 1) \o x[2]

\* .replace(/\.(mdx|md)$/, '.md')
RewriteExt(file) ==
    IF EndsWith(file, DotMdx) THEN Slice(file, 1, Len(file) - Len(DotMdx)) \o DotMd
    ELSE file

\* the urlPath of a discovered file
UrlPath(file) ==
    Once(RewriteExt(RemoveLocale(file)), LAMBDA urlPath :
        LET dir == Dirname(urlPath)
            basename == Basename(urlPath, DotMd)
            dirName == LastSegment(dir)
        IN  IF basename \in IndexNames /\ dirName # <<>>
            THEN PathJoin(<<dir, dirName \o DotMd>>)
            ELSE urlPath)

\* url: `/md/${urlPath}`
Url(file) == <<"/", "m", "d", "/">> \o UrlPath(file)

-----------------------------------------------------------------------------
(* Title / description resolver *)

Title == <<"t", "i", "t", "l", "e">>

Description == <<"d", "e", "s", "c", "r", "i", "p", "t", "i", "o", "n">>

\* ^ under the m flag: the start of the text or of a line
LineStart(s, p) == p = 1 \/ (p > 1 /\ p <= Len(s) + 1 /\ s[p - 1] \in LineTerminators)

\* the last position of the line that position p is on (p - 1 when p is at a
\* line terminator or past the end)
LineEnd(s, p) == RunEnd(s, p, {s[k] : k \in 1..Len(s)} \ LineTerminators)

\* content.match(/^#\s+(.+)$/m) tried at position p: the positions <<from, to>>
\* of group 1, or <<0, 0>>. \s+ is greedy and gives characters back to (.+)
\* when it has run to the end of the text.
H1At(s, p) ==
    IF ~(LineStart(s, p) /\ p <= Len(s) /\ s[p] = "#") THEN <<0, 0>>
    ELSE LET w == RunEnd(s, p + 1, SpaceChars)
             qs == {q \in (p + 2)..w : s[q] \notin LineTerminators}
         IN  IF w < p + 1 THEN <<0, 0>>
             ELSE IF w < Len(s) THEN <<w + 1, LineEnd(s, w + 1)>>
             ELSE IF qs = {} THEN <<0, 0>>
             ELSE <<Max(qs), LineEnd(s, Max(qs))>>

\* the fallback of extractTitle:
\* basename.replace(/[-_]/g, ' ').replace(/\b\w/g, l => l.toUpperCase())
TitleFromFilename(filePath) ==
    Once(Basename(filePath, Extname(filePath)), LAMBDA basename :
    Once([k \in 1..Len(basename) |->
             IF basename[k] \in {"-", "_"} THEN " " ELSE basename[k]], LAMBDA spaced :
        [k \in 1..Len(spaced) |->
           IF spaced[k] \in WordChars /\ (k = 1 \/ spaced[k - 1] \notin WordChars)
           THEN ToUpperCase(spaced[k])
           ELSE spaced[k]]))

\* extractTitle(filePath, metadata, content): the value returned
ExtractTitle(filePath, metadata, content) ==
    LET starts == {p \in 1..Len(content) : H1At(content, p)[1] > 0}
    IN  IF Has(metadata, Title) THEN metadata[Title]
        ELSE IF starts # {}
        THEN LET g == H1At(content, Min(starts))
             IN  Str(Trim(Slice(content, g[1], g[2])))
        ELSE Str(TitleFromFilename(filePath))

DescMin == 50

DescMax == 200

\* content.match(/^([^\n#].{50,200})/m) tried at position p: the last position
\* of the match, or 0
ParagraphAt(s, p) ==
    IF ~(LineStart(s, p) /\ p <= Len(s) /\ s[p] \notin {"\n", "#"}) THEN 0
    ELSE LET e == LineEnd(s, p + 1)
         IN  IF e - p < DescMin THEN 0
             ELSE IF e - p > DescMax THEN p + DescMax
             ELSE e

\* extractDescription(metadata, content)
ExtractDescription(metadata, content) ==
    LET starts == {p \in 1..Len(content) : ParagraphAt(content, p) > 0}
    IN  IF Has(metadata, Description) THEN metadata[Description]
        ELSE IF starts # {}
        THEN LET p == Min(starts)
                 t == Trim(Slice(content, p, ParagraphAt(content, p)))
                 u == [k \in 1..Len(t) |-> IF t[k] = "\n" THEN " " ELSE t[k]]
             IN  Str(Slice(u, 1, IF Len(u) < DescMax THEN Len(u) ELSE DescMax))
        ELSE Undefined


-----------------------------------------------------------------------------
(* Block-header (front matter) metadata parser *)

Dashes == <<"-", "-", "-">>

NoMatch == [found |-> FALSE]

\* \n---\s*\n right after position e: the last position of it, or 0.
\* \s* is greedy and gives back until a \n follows.
FrontmatterCloseEnd(s, e) ==
    IF ~MatchesAt(s, e + 1, <<"\n">> \o Dashes) THEN 0
    ELSE LET bs == {b \in (e + 5)..RunEnd(s, e + 5, SpaceChars) : s[b] = "\n"}
         IN  IF bs = {} THEN 0 ELSE Max(bs)

\* content.match(/^---\s*\n([\s\S]*?)\n---\s*\n/): group 1 and the last position
\* of the match. The first \s* is greedy, group 1 is lazy.
FrontmatterMatch(s) ==
    LET as == {a \in 4..RunEnd(s, 4, SpaceChars) :
                 /\ s[a] = "\n"
                 /\ \E e \in a..Len(s) : FrontmatterCloseEnd(s, e) > 0}
    IN  IF ~StartsWith(s, Dashes) \/ as = {} THEN NoMatch
        ELSE LET a == Max(as)
                 e == Min({x \in a..Len(s) : FrontmatterCloseEnd(s, x) > 0})
             IN  [found |-> TRUE, group |-> Slice(s, a + 1, e),
                  end |-> FrontmatterCloseEnd(s, e)]

\* line.match(/^(\w+):\s*(.+)$/): <<key, value>> as matched, or <<>>
KeyValueMatch(line) ==
    LET k == RunEnd(line, 1, WordChars)
        w == RunEnd(line, k + 2, SpaceChars)
        q == IF w < Len(line) THEN w + 1 ELSE Len(line)
    IN  IF k < 1 \/ k + 2 > Len(line) \/ line[k + 1] # ":" THEN <<>>
        ELSE IF \E j \in q..Len(line) : line[j] \in LineTerminators THEN <<>>
        ELSE <<Slice(line, 1, k), Slice(line, q, Len(line))>>

\* v.replace(/^['"]|['"]$/g, '')
StripOuterQuotes(v) ==
    LET a == IF v # <<>> /\ v[1] \in QuoteChars THEN 2 ELSE 1
        b == IF Len(v) >= 2 /\ v[Len(v)] \in QuoteChars THEN Len(v) - 1 ELSE Len(v)
    IN  Slice(v, a, b)

\* text.split(',').map(v => v.trim().replace(/['"]/g, '')).filter(v => v.length > 0)
ParseList(text) ==
    LET items == Split(text, ",")
        cleaned == [j \in 1..Len(items) |-> Without(Trim(items[j]), QuoteChars)]
    IN  SelectSeq(cleaned, LAMBDA v : v # <<>>)

\* the value processMDXFile stores for a front matter line
MdxValue(raw) ==
    LET value == StripOuterQuotes(Trim(raw))
    IN  IF StartsWith(value, <<"[">>) /\ EndsWith(value, <<"]">>)
        THEN Arr(ParseList(Slice(value, 2, Len(value) - 1)))
        ELSE Str(value)

\* the value processMDFile stores for a front matter line
MdValue(raw) == Str(StripOuterQuotes(Trim(raw)))

\* metadata[key] = value
SetKey(metadata, key, value) ==
    [k \in DOMAIN metadata \cup {key} |-> IF k = key THEN value ELSE metadata[k]]

EmptyMetadata == [k \in {} |-> Undefined]

\* frontmatter.split('\n').forEach(line => ...) of processMDXFile
\* one line of the front matter of an .mdx file
MdxFrontmatterLine(metadata, line) ==
    Once(KeyValueMatch(line), LAMBDA m :
        IF m = <<>> THEN metadata ELSE SetKey(metadata, m[1], MdxValue(m[2])))

RECURSIVE MdxFrontmatterLines(_, _, _)
MdxFrontmatterLines(lines, i, metadata) ==
    IF i > Len(lines) THEN metadata
    ELSE Once(MdxFrontmatterLine(metadata, lines[i]),
              LAMBDA next : MdxFrontmatterLines(lines, i + 1, next))

\* frontmatter.split('\n').forEach(line => ...) of processMDFile
\* one line of the front matter of an .md file
MdFrontmatterLine(metadata, line) ==
    Once(KeyValueMatch(line), LAMBDA m :
        IF m = <<>> THEN metadata ELSE SetKey(metadata, m[1], MdValue(m[2])))

RECURSIVE MdFrontmatterLines(_, _, _)
MdFrontmatterLines(lines, i, metadata) ==
    IF i > Len(lines) THEN metadata
    ELSE Once(MdFrontmatterLine(metadata, lines[i]),
              LAMBDA next : MdFrontmatterLines(lines, i + 1, next))

-----------------------------------------------------------------------------
(* Embedded-object (export const metadata = {...}) metadata parser *)

Export == <<"e", "x", "p", "o", "r", "t">>

Const == <<"c", "o", "n", "s", "t">>

MetadataWord == <<"m", "e", "t", "a", "d", "a", "t", "a">>

Slug == <<"s", "l", "u", "g">>

Tags == <<"t", "a", "g", "s">>

\* ^export\s+const\s+metadata\s*=\s*{ tried at position p (m flag): the
\* position of the brace, or 0
ExportBrace(s, p) ==
    LET w1 == RunEnd(s, p + 6, SpaceChars)
        w2 == RunEnd(s, w1 + 6, SpaceChars)
        w3 == RunEnd(s, w2 + 9, SpaceChars)
        w4 == RunEnd(s, w3 + 2, SpaceChars)
    IN  IF /\ LineStart(s, p)
           /\ MatchesAt(s, p, Export)
           /\ w1 >= p + 6
           /\ MatchesAt(s, w1 + 1, Const)
           /\ w2 >= w1 + 6
           /\ MatchesAt(s, w2 + 1, MetadataWord)
           /\ MatchesAt(s, w3 + 1, <<"=">>)
           /\ MatchesAt(s, w4 + 1, <<"{">>)
        THEN w4 + 1
        ELSE 0

\* };?\s*\n (newline TRUE) or };?\s*\n? (newline FALSE) tried with the brace at
\* position q: the last position of it, or 0
ExportCloseEnd(s, q, newline) ==
    IF ~MatchesAt(s, q, <<"}">>) THEN 0
    ELSE LET t == IF MatchesAt(s, q + 1, <<";">>) THEN q + 2 ELSE q + 1
             w == RunEnd(s, t, SpaceChars)
             bs == {b \in t..w : s[b] = "\n"}
         IN  IF ~newline THEN w
             ELSE IF bs = {} THEN 0
             ELSE Max(bs)

\* the closing brace the lazy {[\s\S]*?} stops at, for the declaration at p
ExportCloser(s, p, newline) ==
    LET qs == {q \in (ExportBrace(s, p) + 1)..Len(s) : ExportCloseEnd(s, q, newline) > 0}
    IN  IF ExportBrace(s, p) = 0 \/ qs = {} THEN 0 ELSE Min(qs)

\* /^export\s+const\s+metadata\s*=\s*({[\s\S]*?});?\s*\n/m tried at position p:
\* the last position of the match, or 0
ExportMatchEnd(s, p) ==
    IF ExportCloser(s, p, TRUE) = 0 THEN 0
    ELSE ExportCloseEnd(s, ExportCloser(s, p, TRUE), TRUE)

\* the same with the final \n optional, as content.replace uses it
ExportReplaceEnd(s, p) ==
    IF ExportCloser(s, p, FALSE) = 0 THEN 0
    ELSE ExportCloseEnd(s, ExportCloser(s, p, FALSE), FALSE)

\* content.match(/^export...({[\s\S]*?});?\s*\n/m): group 1
ExportMatch(s) ==
    LET starts == {p \in 1..Len(s) : ExportMatchEnd(s, p) > 0}
    IN  IF starts = {} THEN NoMatch
        ELSE LET p == Min(starts)
             IN  [found |-> TRUE,
                  group |-> Slice(s, ExportBrace(s, p), ExportCloser(s, p, TRUE))]

\* metadataStr.match(/name:\s*['"]([^'"]+)['"]/) tried at position p: the
\* positions <<from, to>> of group 1, or <<0, 0>>
QuotedFieldAt(s, p, name) ==
    LET w == RunEnd(s, p + Len(name) + 1, SpaceChars)
        r == RunEnd(s, w + 2, {s[k] : k \in 1..Len(s)} \ QuoteChars)
    IN  IF /\ MatchesAt(s, p, name \o <<":">>)
           /\ w + 1 <= Len(s) /\ s[w + 1] \in QuoteChars
           /\ r >= w + 2
           /\ r + 1 <= Len(s) /\ s[r + 1] \in QuoteChars
        THEN <<w + 2, r>>
        ELSE <<0, 0>>

\* metadataStr.match(/tags:\s*\[([^\]]+)\]/) tried at position p
TagsFieldAt(s, p) ==
    LET w == RunEnd(s, p + Len(Tags) + 1, SpaceChars)
        r == RunEnd(s, w + 2, {s[k] : k \in 1..Len(s)} \ {"]"})
    IN  IF /\ MatchesAt(s, p, Tags \o <<":">>)
           /\ MatchesAt(s, w + 1, <<"[">>)
           /\ r >= w + 2
           /\ MatchesAt(s, r + 1, <<"]">>)
        THEN <<w + 2, r>>
        ELSE <<0, 0>>

\* one of the title / description / slug steps of extractMetadataValues
WithQuotedField(metadata, s, name) ==
    LET starts == {p \in 1..Len(s) : QuotedFieldAt(s, p, name)[1] > 0}
    IN  IF starts = {} THEN metadata
        ELSE LET g == QuotedFieldAt(s, Min(starts), name)
             IN  SetKey(metadata, name, Str(Slice(s, g[1], g[2])))

\* the tags step of extractMetadataValues
WithTags(metadata, s) ==
    LET starts == {p \in 1..Len(s) : TagsFieldAt(s, p)[1] > 0}
    IN  IF starts = {} THEN metadata
        ELSE LET g == TagsFieldAt(s, Min(starts))
                 tags == ParseList(Slice(s, g[1], g[2]))
             IN  IF tags = <<>> THEN metadata ELSE SetKey(metadata, Tags, Arr(tags))

\* extractMetadataValues(metadataStr)
ExtractMetadataValues(s) ==
    Once(WithQuotedField(EmptyMetadata, s, Title), LAMBDA m1 :
        Once(WithQuotedField(m1, s, Description), LAMBDA m2 :
            Once(WithQuotedField(m2, s, Slug), LAMBDA m3 :
                WithTags(m3, s))))

-----------------------------------------------------------------------------
(* Markup stripper *)

\* the first > at or after position at, or 0
NextClose(s, at) ==
    LET gs == {g \in at..Len(s) : s[g] = ">"}
    IN  IF gs = {} THEN 0 ELSE Min(gs)

\* <\/[A-Z][\w]*> tried at position c: the last position of it, or 0
ClosingTagEnd(s, c) ==
    LET r == RunEnd(s, c + 3, WordChars)
    IN  IF /\ MatchesAt(s, c, <<"<", "/">>)
           /\ c + 2 <= Len(s) /\ s[c + 2] \in UpperChars
           /\ MatchesAt(s, r + 1, <<">">>)
        THEN r + 1
        ELSE 0

\* /<[A-Z][\w]*[^>]*>[\s\S]*?<\/[A-Z][\w]*>/ tried at position p
JsxPairEnd(s, p) ==
    LET g == NextClose(s, p + 2)
        cs == {c \in (g + 1)..Len(s) : ClosingTagEnd(s, c) > 0}
    IN  IF /\ MatchesAt(s, p, <<"<">>)
           /\ p + 1 <= Len(s) /\ s[p + 1] \in UpperChars
           /\ g > 0
           /\ cs # {}
        THEN ClosingTagEnd(s, Min(cs))
        ELSE 0

\* /<[A-Z][\w]*[^>]*\/>/ tried at position p
JsxSelfClosingEnd(s, p) ==
    LET g == NextClose(s, p + 2)
    IN  IF /\ MatchesAt(s, p, <<"<">>)
           /\ p + 1 <= Len(s) /\ s[p + 1] \in UpperChars
           /\ g >= p + 3
           /\ s[g - 1] = "/"
        THEN g
        ELSE 0

Import == <<"i", "m", "p", "o", "r", "t">>

From == <<"f", "r", "o", "m">>

\* from\s+['"][^'"]+['"];?\s*\n? tried at position f: the last position, or 0
FromClauseEnd(s, f) ==
    LET w == RunEnd(s, f + 4, SpaceChars)
        r == RunEnd(s, w + 2, {s[k] : k \in 1..Len(s)} \ QuoteChars)
        t == IF MatchesAt(s, r + 2, <<";">>) THEN r + 3 ELSE r + 2
    IN  IF /\ MatchesAt(s, f, From)
           /\ w >= f + 4
           /\ w + 1 <= Len(s) /\ s[w + 1] \in QuoteChars
           /\ r >= w + 2
           /\ r + 1 <= Len(s) /\ s[r + 1] \in QuoteChars
        THEN RunEnd(s, t, SpaceChars)
        ELSE 0

\* /import\s+.*?from\s+['"][^'"]+['"];?\s*\n?/ tried at position p
ImportEnd(s, p) ==
    LET w == RunEnd(s, p + 6, SpaceChars)
        fs == {f \in (w + 1)..Len(s) :
                 /\ \A j \in (w + 1)..(f - 1) : s[j] \notin LineTerminators
                 /\ FromClauseEnd(s, f) > 0}
    IN  IF MatchesAt(s, p, Import) /\ w >= p + 6 /\ fs # {}
        THEN FromClauseEnd(s, Min(fs))
        ELSE 0

\* the three replacements of processMDXFile, in the order of the source
StripMarkup(s) ==
    Once(ReplaceAll(s, JsxPairEnd), LAMBDA s1 :
        Once(ReplaceAll(s1, JsxSelfClosingEnd), LAMBDA s2 :
            ReplaceAll(s2, ImportEnd)))

-----------------------------------------------------------------------------
(* The two file processors, on the text readFileSync returned *)

\* processMDXFile
ProcessMDXFile(content) ==
    Once(FrontmatterMatch(content), LAMBDA fm :
    Once(ExportMatch(content), LAMBDA em :
        LET metadata ==
                IF fm.found /\ fm.group # <<>>
                THEN Once(Split(fm.group, "\n"), LAMBDA lines :
                         MdxFrontmatterLines(lines, 1, EmptyMetadata))
                ELSE IF em.found THEN ExtractMetadataValues(em.group)
                ELSE EmptyMetadata
            markdownContent ==
                IF fm.found /\ fm.group # <<>>
                THEN Slice(content, fm.end + 1, Len(content))
                ELSE IF em.found THEN ReplaceFirst(content, ExportReplaceEnd)
                ELSE content
        IN  [metadata |-> metadata,
             content |-> Once(markdownContent, LAMBDA text : Trim(StripMarkup(text)))]))

\* processMDFile
ProcessMDFile(content) ==
    Once(FrontmatterMatch(content), LAMBDA fm :
        IF fm.found /\ fm.group # <<>>
        THEN [metadata |-> Once(Split(fm.group, "\n"), LAMBDA lines :
                               MdFrontmatterLines(lines, 1, EmptyMetadata)),
              content |-> Trim(Slice(content, fm.end + 1, Len(content)))]
        ELSE [metadata |-> EmptyMetadata, content |-> Trim(content)])


-----------------------------------------------------------------------------
(* Index generator: the grouping, the sort and the text of generateLLMsTxt *)

DefaultProjectName ==
    <<"P", "e", "r", "s", "o", "n", "a", "l", " ", "W", "e", "b", "s", "i", "t", "e",
      " ", "&", " ", "B", "l", "o", "g">>

DefaultProjectDescription ==
    <<"A", " ", "c", "o", "l", "l", "e", "c", "t", "i", "o", "n", " ", "o", "f", " ",
      "b", "l", "o", "g", " ", "p", "o", "s", "t", "s", ",", " ", "r", "e", "s", "e",
      "a", "r", "c", "h", " ", "a", "r", "t", "i", "c", "l", "e", "s", ",", " ", "a",
      "n", "d", " ", "a", "p", "p", " ", "d", "e", "s", "c", "r", "i", "p", "t", "i",
      "o", "n", "s", " ", "c", "o", "v", "e", "r", "i", "n", "g", " ", "s", "o", "f",
      "t", "w", "a", "r", "e", " ", "d", "e", "v", "e", "l", "o", "p", "m", "e", "n",
      "t", ",", " ", "a", "l", "g", "o", "r", "i", "t", "h", "m", "s", ",", " ", "a",
      "n", "d", " ", "t", "e", "c", "h", "n", "i", "c", "a", "l", " ", "t", "u", "t",
      "o", "r", "i", "a", "l", "s", ".">>

\* the index of category c in the ordered groups, or 0
GroupIndex(groups, c) ==
    LET hits == {g \in 1..Len(groups) : groups[g].category = c}
    IN  IF hits = {} THEN 0 ELSE Min(hits)

\* a grouping that would replace the members of an existing group instead of
\* pushing to them (filesByCategory.set(category, [file]) on every file)
GroupFile_overwrite(groups, category, i) ==
    IF GroupIndex(groups, category) = 0
    THEN Append(groups, [category |-> category, members |-> <<i>>])
    ELSE [groups EXCEPT ![GroupIndex(groups, category)].members = <<i>>]

\* one iteration of the grouping loop: filesByCategory after file number i of
\* the manifest. A Map keeps its keys in insertion order; a group holds the
\* positions in the manifest of its members (the array holds references).
GroupFile(groups, category, i) ==
    IF GroupIndex(groups, category) = 0
    THEN Append(groups, [category |-> category, members |-> <<i>>])
    ELSE [groups EXCEPT ![GroupIndex(groups, category)].members = Append(@, i)]

\* for (const file of files) { ... } over the manifest
RECURSIVE GroupLoop(_, _, _)
GroupLoop(manifest, i, groups) ==
    IF i > Len(manifest) THEN groups
    ELSE Once(GroupFile(groups, manifest[i].category, i),
              LAMBDA next : GroupLoop(manifest, i + 1, next))

FilesByCategory(manifest) == GroupLoop(manifest, 1, <<>>)

\* The order of localeCompare on the characters of the model, after the root
\* collation: white space, punctuation, symbols, digits, letters; a letter's
\* case only breaks ties, lower case first.
CollationOrder ==
    <<"\t", "\n", "\r", " ", "_", "-", ",", ";", ":", "!", "?", ".", "'", "\"",
      "(", ")", "[", "]", "{", "}", "@", "*", "/", "&", "#", "%", "^", "+", "<",
      "=", ">", "|", "~", "$",
      "0", "1", "2", "3", "4", "5", "6", "7", "8", "9",
      "a", "b", "c", "d", "e", "f", "g", "h", "i", "j", "k", "l", "m",
      "n", "o", "p", "q", "r", "s", "t", "u", "v", "w", "x", "y", "z">>

ToLowerCase(c) ==
    IF c \in UpperChars THEN CHOOSE l \in LowerChars : ToUpperCase(l) = c ELSE c

PrimaryWeight(c) ==
    LET hits == {k \in 1..Len(CollationOrder) : CollationOrder[k] = ToLowerCase(c)}
    IN  IF hits = {} THEN 0 ELSE Min(hits)

\* a.localeCompare(b): -1, 0 or 1
LocaleCompare(a, b) ==
    LET n == IF Len(a) < Len(b) THEN Len(a) ELSE Len(b)
        primary == {k \in 1..n : PrimaryWeight(a[k]) # PrimaryWeight(b[k])}
        cased == {k \in 1..n : a[k] # b[k]}
    IN  IF primary # {}
        THEN IF PrimaryWeight(a[Min(primary)]) < PrimaryWeight(b[Min(primary)])
             THEN -1 ELSE 1
        ELSE IF Len(a) # Len(b) THEN IF Len(a) < Len(b) THEN -1 ELSE 1
        ELSE IF cased = {} THEN 0
        ELSE IF a[Min(cased)] \in LowerChars THEN -1 ELSE 1

\* insert entry x after the entries that do not sort after it (the sort is stable)
InsertByTitle(sorted, x) ==
    LET before == {k \in 1..Len(sorted) :
                     LocaleCompare(RenderValue(sorted[k].title), RenderValue(x.title)) <= 0}
        at == IF before = {} THEN 0 ELSE Max(before)
    IN  Slice(sorted, 1, at) \o <<x>> \o Slice(sorted, at + 1, Len(sorted))

\* [...categoryFiles].sort((a, b) => a.title.localeCompare(b.title))
RECURSIVE SortLoop(_, _, _)
SortLoop(entries, i, sorted) ==
    IF i > Len(entries) THEN sorted
    ELSE Once(InsertByTitle(sorted, entries[i]),
              LAMBDA next : SortLoop(entries, i + 1, next))

SortByTitle(entries) == SortLoop(entries, 1, <<>>)

\* a.title.localeCompare is not a function when a title is an array (front
\* matter `title: [x]` of an .mdx file): the comparator throws a TypeError if
\* it is ever called with such an entry first. A group of one is never compared.
SortMayThrow(manifest, groups) ==
    \E g \in 1..Len(groups) :
        /\ Len(groups[g].members) >= 2
        /\ \E j \in 1..Len(groups[g].members) :
               manifest[groups[g].members[j]].title.kind # "string"

SortMustThrow(manifest, groups) ==
    \E g \in 1..Len(groups) :
        /\ Len(groups[g].members) >= 2
        /\ \A j \in 1..Len(groups[g].members) :
               manifest[groups[g].members[j]].title.kind # "string"

\* category.charAt(0).toUpperCase() + category.slice(1)
Capitalize(category) ==
    IF category = <<>> THEN <<>>
    ELSE <<ToUpperCase(category[1])>> \o Slice(category, 2, Len(category))

\* options.x || fallback
OrDefault(v, fallback) == IF Truthy(v) THEN RenderValue(v) ELSE fallback

\* the list line of one entry, without its final \n
EntryLine(file, baseUrl) ==
    <<"-", " ", "[">> \o RenderValue(file.title) \o <<"]", "(">>
        \o baseUrl \o file.url \o <<")">>
        \o (IF Truthy(file.description)
            THEN <<":", " ">> \o RenderValue(file.description)
            ELSE <<>>)

\* The text of llms.txt: the two header lines that depend on the options and
\* one section per category; the fixed boilerplate between them is left out.
LlmsTxt(manifest, options) ==
    Once(FilesByCategory(manifest), LAMBDA groups :
    Once(OrDefault(options.baseUrl, <<>>), LAMBDA baseUrl :
        [projectName |-> OrDefault(options.projectName, DefaultProjectName),
         projectDescription |->
             OrDefault(options.projectDescription, DefaultProjectDescription),
         sections |->
             [g \in 1..Len(groups) |->
                 Once(SortByTitle([j \in 1..Len(groups[g].members) |->
                                      manifest[groups[g].members[j]]]),
                      LAMBDA sortedFiles :
                          [heading |-> Capitalize(groups[g].category),
                           lines |-> [j \in 1..Len(sortedFiles) |->
                                         EntryLine(sortedFiles[j], baseUrl)]])]]))


-----------------------------------------------------------------------------
(* The filesystem and the run of generateLlmsFiles *)

\* path.resolve(process.cwd(), options.contentDir) and options.outputDir
ContentDir == <<"/", "c">>

OutputDir == <<"/", "o">>

MdName == <<"m", "d">>

MdDir == PathJoin(<<OutputDir, MdName>>)

IgnoredDirs == {<<"n", "o", "d", "e", "_", "m", "o", "d", "u", "l", "e", "s">>, <<".", "n", "e", "x", "t">>, <<"o", "u", "t">>}

NoError == [error |-> "none", at |-> 0, filesByCategory |-> <<>>]

Thrown(what, at) == [error |-> what, at |-> at, filesByCategory |-> <<>>]

Event(op, arg) == [op |-> op, arg |-> arg]

\* a run that would not look at the content directory before it starts
ContentDirMissing_unchecked(d) == FALSE

\* if (!fs.existsSync(contentDir)) throw ...
ContentDirMissing(d) == ~d.contentDirExists

\* a write that would leave an existing file as it is (flag 'wx' without the
\* error)
WriteFileSync_keepExisting(out, path, content) ==
    [q \in DOMAIN out \cup {path} |-> IF q \in DOMAIN out THEN out[q] ELSE content]

\* fs.writeFileSync(path, content, 'utf-8') on the written files: unconditional
WriteFileSync(out, path, content) ==
    [q \in DOMAIN out \cup {path} |-> IF q = path THEN content ELSE out[q]]

\* a loop that would return after its first iteration
AfterIteration_returnEarly(i, n) == "generate"

\* where discoverFiles is after iteration i of n: in the loop, or returned
AfterIteration(i, n) == IF i = n THEN "generate" ELSE "loop"

\* fs.existsSync
ExistsSync(d, path) == path \in d.dirs \/ path \in DOMAIN d.out

\* the directories fs.mkdirSync(dir, {recursive: true}) makes sure of
Ancestors(dir) ==
    {Slice(dir, 1, k - 1) : k \in {j \in Slashes(dir) : j > 1}} \cup {dir}

\* glob('**/*.{mdx,md}', {cwd, ignore: ['node_modules/**', '.next/**', 'out/**']}):
\* a name *.md or *.mdx, no segment that starts with a dot, not below an ignored
\* top-level directory
Discoverable(file) ==
    LET parts == Split(file, "/")
    IN  /\ EndsWith(file, DotMd) \/ EndsWith(file, DotMdx)
        /\ \A j \in 1..Len(parts) : parts[j] # <<>> /\ parts[j][1] # "."
        /\ ~(Len(parts) >= 2 /\ parts[1] \in IgnoredDirs)

\* the orders glob may resolve a set of paths in
Orders(S) ==
    {f \in [1..Cardinality(S) -> S] : \A i, j \in 1..Cardinality(S) : f[i] = f[j] => i = j}

\* generateLlmsFiles up to the call of discoverFiles: the existence check and
\* the two mkdirSync
GenerateLlmsFilesStart ==
    /\ pc = "start"
    /\ UNCHANGED <<input, mdxFiles, idx, files>>
    /\ IF ContentDirMissing(disk)
       THEN /\ pc' = "failed"
            /\ output' = Thrown("Content directory not found", 0)
            /\ UNCHANGED <<disk, log>>
       ELSE \E outcome \in {"ok", "mkdirOutputThrows", "mkdirMdThrows"} :
              LET needOutput == ~ExistsSync(disk, OutputDir)
                  afterOutput == IF needOutput
                                 THEN [disk EXCEPT !.dirs = @ \cup {OutputDir}]
                                 ELSE disk
                  logOutput == IF needOutput
                               THEN Append(log, Event("mkdir", OutputDir))
                               ELSE log
                  needMd == ~ExistsSync(afterOutput, MdDir)
              IN  CASE outcome = "mkdirOutputThrows" ->
                         /\ needOutput
                         /\ pc' = "failed"
                         /\ output' = Thrown("mkdirSync", 0)
                         /\ UNCHANGED <<disk, log>>
                    [] outcome = "mkdirMdThrows" ->
                         /\ needMd
                         /\ pc' = "failed"
                         /\ output' = Thrown("mkdirSync", 0)
                         /\ disk' = afterOutput
                         /\ log' = logOutput
                    [] outcome = "ok" ->
                         /\ pc' = "glob"
                         /\ output' = output
                         /\ disk' = IF needMd
                                    THEN [afterOutput EXCEPT !.dirs = @ \cup {MdDir}]
                                    ELSE afterOutput
                         /\ log' = IF needMd
                                   THEN Append(logOutput, Event("mkdir", MdDir))
                                   ELSE logOutput

\* discoverFiles: await glob(...)
DiscoverFilesGlob ==
    /\ pc = "glob"
    /\ \E order \in Orders({f \in DOMAIN disk.source : Discoverable(f)}) :
         /\ mdxFiles' = order
         /\ pc' = IF order = <<>> THEN "generate" ELSE "loop"
    /\ idx' = 1
    /\ files' = <<>>
    /\ log' = Append(log, Event("glob", ContentDir))
    /\ UNCHANGED <<input, output, disk>>

\* the ProcessedContent of a source file with the given text
ProcessFile(file, text) ==
    IF Extname(file) = DotMdx THEN ProcessMDXFile(text) ELSE ProcessMDFile(text)

\* the ProcessedFile that discoverFiles pushes for a source file
ManifestEntry(file, result) ==
    Once(PathJoin(<<ContentDir, file>>), LAMBDA filePath :
        [relativePath |-> file,
         url |-> Url(file),
         title |-> ExtractTitle(filePath, result.metadata, result.content),
         description |-> ExtractDescription(result.metadata, result.content),
         category |-> Category(file)])

\* path.join(outputDir, 'md', urlPath)
OutputMdPath(file) == PathJoin(<<OutputDir, MdName, UrlPath(file)>>)

\* One iteration of the for loop of discoverFiles. readFileSync, mkdirSync and
\* writeFileSync may each throw; mkdirSync throws when a file is in the way of
\* the directory, writeFileSync when the path is a directory or its parent is a
\* file.
DiscoverFilesIteration ==
    /\ pc = "loop"
    /\ idx <= Len(mdxFiles)
    /\ UNCHANGED <<input, mdxFiles>>
    /\ \E outcome \in {"ok", "readThrows", "mkdirThrows", "writeThrows"} :
       \E file \in {mdxFiles[idx]} :
       \E result \in {ProcessFile(file, disk.source[file])} :
       \E entry \in {ManifestEntry(file, result)} :
       \E outputMdPath \in {OutputMdPath(file)} :
       \E outputMdDir \in {Dirname(outputMdPath)} :
         LET needMkdir == ~ExistsSync(disk, outputMdDir)
             mkdirBlocked == \E a \in Ancestors(outputMdDir) : a \in DOMAIN disk.out
             dirsAfter == IF needMkdir THEN disk.dirs \cup Ancestors(outputMdDir)
                          ELSE disk.dirs
             writeBlocked == outputMdPath \in dirsAfter \/ outputMdDir \in DOMAIN disk.out
             pushed == Append(Append(log, Event("read", file)), Event("push", file))
             logAfter == IF needMkdir THEN Append(pushed, Event("mkdir", outputMdDir))
                         ELSE pushed
         IN  CASE outcome = "readThrows" ->
                    /\ pc' = "failed"
                    /\ output' = Thrown("readFileSync", idx)
                    /\ UNCHANGED <<disk, idx, files, log>>
               [] outcome = "mkdirThrows" ->
                    /\ needMkdir
                    /\ pc' = "failed"
                    /\ output' = Thrown("mkdirSync", idx)
                    /\ files' = Append(files, entry)
                    /\ log' = pushed
                    /\ UNCHANGED <<disk, idx>>
               [] outcome = "writeThrows" ->
                    /\ ~(needMkdir /\ mkdirBlocked)
                    /\ pc' = "failed"
                    /\ output' = Thrown("writeFileSync", idx)
                    /\ files' = Append(files, entry)
                    /\ disk' = [disk EXCEPT !.dirs = dirsAfter]
                    /\ log' = logAfter
                    /\ UNCHANGED idx
               [] outcome = "ok" ->
                    /\ ~(needMkdir /\ mkdirBlocked)
                    /\ ~writeBlocked
                    /\ pc' = AfterIteration(idx, Len(mdxFiles))
                    /\ output' = output
                    /\ files' = Append(files, entry)
                    /\ disk' = [disk EXCEPT
                                  !.dirs = dirsAfter,
                                  !.out = WriteFileSync(@, outputMdPath, result.content)]
                    /\ log' = Append(logAfter, Event("write", outputMdPath))
                    /\ idx' = idx + 1

\* generateLLMsTxt(files, outputDir, options): the grouping, the text, and the
\* one writeFileSync of llms.txt
GenerateLLMsTxt ==
    /\ pc = "generate"
    /\ UNCHANGED <<input, mdxFiles, idx, files>>
    /\ \E outcome \in {"ok", "sortThrows", "writeThrows"} :
       \E groups \in {FilesByCategory(files)} :
             CASE outcome = "sortThrows" ->
                    /\ SortMayThrow(files, groups)
                    /\ pc' = "failed"
                    /\ output' = [Thrown("TypeError", 0) EXCEPT !.filesByCategory = groups]
                    /\ UNCHANGED <<disk, log>>
               [] outcome = "writeThrows" ->
                    /\ ~SortMustThrow(files, groups)
                    /\ pc' = "failed"
                    /\ output' = [Thrown("writeFileSync", 0) EXCEPT !.filesByCategory = groups]
                    /\ UNCHANGED <<disk, log>>
               [] outcome = "ok" ->
                    /\ ~SortMustThrow(files, groups)
                    /\ OutputDir \in disk.dirs
                    /\ pc' = "done"
                    /\ output' = [NoError EXCEPT !.filesByCategory = groups]
                    /\ disk' = [disk EXCEPT !.llmsTxt = <<LlmsTxt(files, input)>>]
                    /\ log' = Append(log, Event("llms", PathJoin(<<OutputDir,
                                 <<"l", "l", "m", "s", ".", "t", "x", "t">>>>)))


-----------------------------------------------------------------------------
(* The runs of generateLlmsFiles that are explored *)

\* the most source files a content directory holds
MaxFiles == 2

\* relative paths a content directory may hold: three that normalize to the
\* same output path, an index file at the root, a file below an ignored directory
SamplePaths ==
    { <<"a", "/", "b", ".", "m", "d">>,
      <<"a", "/", "b", ".", "m", "d", "x">>,
      <<"a", "/", "b", ".", "e", "n", ".", "m", "d">>,
      <<"i", "n", "d", "e", "x", ".", "m", "d">>,
      <<"o", "u", "t", "/", "x", ".", "m", "d">> }

\* texts a source file may hold: a heading and a body; front matter with a
\* title and a component; front matter whose title is a list
SampleTexts ==
    { <<"#", " ", "H", "i", "\n", "B", "o", "d", "y">>,
      <<"-", "-", "-", "\n", "t", "i", "t", "l", "e", ":", " ", "X", "\n", "-", "-", "-", "\n", "<", "A", "/", ">", "b">>,
      <<"-", "-", "-", "\n", "t", "i", "t", "l", "e", ":", " ", "[", "t", "]", "\n", "-", "-", "-", "\n", "c">> }

\* the options of a run: all left out, or all given
SampleOptions ==
    { [baseUrl |-> Undefined, projectName |-> Undefined,
       projectDescription |-> Undefined],
      [baseUrl |-> Str(<<"h">>), projectName |-> Str(<<"P">>),
       projectDescription |-> Str(<<"D">>)] }

EmptyFiles == [q \in {} |-> <<>>]

SampleTrees ==
    UNION {[S -> SampleTexts] : S \in {T \in SUBSET SamplePaths : Cardinality(T) <= MaxFiles}}

Init ==
    /\ pc = "start"
    /\ input \in SampleOptions
    /\ output = NoError
    /\ \E exists \in BOOLEAN :
       \E tree \in (IF exists THEN SampleTrees ELSE {EmptyFiles}) :
       \E dirs \in {{}, {OutputDir}, {OutputDir, MdDir}} :
           disk = [contentDirExists |-> exists, source |-> tree, dirs |-> dirs,
                   out |-> EmptyFiles, llmsTxt |-> <<>>]
    /\ mdxFiles = <<>>
    /\ idx = 1
    /\ files = <<>>
    /\ log = <<>>

Next ==
    \/ GenerateLlmsFilesStart
    \/ DiscoverFilesGlob
    \/ DiscoverFilesIteration
    \/ GenerateLLMsTxt

Spec == Init /\ [][Next]_vars

-----------------------------------------------------------------------------
(* generateLLMsTxt called on any manifest *)

\* the longest manifest handed to generateLLMsTxt
MaxManifest == 3

SampleEntries ==
    [relativePath : {<<"x", ".", "m", "d">>},
     url : {<<"/", "m", "d", "/", "u">>, <<"/", "m", "d", "/", "v">>},
     title : {Str(<<"A", "p", "p", "l", "e">>), Str(<<"b", "a", "n", "a", "n", "a">>)},
     description : {Undefined},
     category : {<<"p">>, <<"q">>}]

SampleManifests == UNION {[1..n -> SampleEntries] : n \in 0..MaxManifest}

InitIndex ==
    /\ pc = "generate"
    /\ input \in SampleOptions
    /\ output = NoError
    /\ disk = [contentDirExists |-> TRUE, source |-> EmptyFiles,
               dirs |-> {OutputDir, MdDir}, out |-> EmptyFiles, llmsTxt |-> <<>>]
    /\ mdxFiles = <<>>
    /\ idx = 1
    /\ files \in SampleManifests
    /\ log = <<>>

NextIndex == GenerateLLMsTxt

SpecIndex == InitIndex /\ [][NextIndex]_vars

-----------------------------------------------------------------------------
(* The pure functions, each applied to inputs drawn from a bounded set *)

NoDisk ==
    [contentDirExists |-> FALSE, source |-> EmptyFiles, dirs |-> {},
     out |-> EmptyFiles, llmsTxt |-> <<>>]

\* everything but pc, input and output is left alone by a pure call
Idle ==
    /\ disk = NoDisk
    /\ mdxFiles = <<>>
    /\ idx = 1
    /\ files = <<>>
    /\ log = <<>>

\* every concatenation of at most n of the given fragments
RECURSIVE Concatenations(_, _)
Concatenations(frags, n) ==
    IF n = 0 THEN {<<>>}
    ELSE LET shorter == Concatenations(frags, n - 1)
         IN  shorter \cup {s \o f : s \in shorter, f \in frags}

(* Path normalizer *)

\* the most locale infixes a sample file name carries
MaxLocales == 2

\* how many times a path is normalized again
MaxRounds == 2

SampleDirs ==
    { <<>>,
      <<"a", "/">>,
      <<"a", ".", "e", "n", "/">>,
      <<"i", "n", "d", "e", "x", "/">>,
      <<"p", "o", "s", "t", "s", "/", "m", "y", "-", "a", "r", "t", "i", "c", "l", "e", "/">> }

SampleStems ==
    { <<"a">>,
      <<"p", "o", "s", "t">>,
      <<"i", "n", "d", "e", "x">>,
      <<"_", "i", "n", "d", "e", "x">> }

SampleInfixes ==
    { <<".", "e", "n">>,
      <<".", "r", "u">> }

SamplePathInputs ==
    {d \o n \o l \o e : d \in SampleDirs, n \in SampleStems,
                        l \in Concatenations(SampleInfixes, MaxLocales),
                        e \in {DotMd, DotMdx}}

InitPath ==
    /\ pc = "call"
    /\ input \in SamplePathInputs
    /\ output = NoError
    /\ Idle

\* the category and the url of discoverFiles for the relative path input
NormalizePath ==
    /\ pc = "call"
    /\ pc' = "return"
    /\ output' = [category |-> Category(input), urlPath |-> UrlPath(input),
                  url |-> Url(input)]
    /\ UNCHANGED <<input, disk, mdxFiles, idx, files, log>>

\* the normalized path as the relative path of another call; log keeps the
\* paths normalized before
NormalizeAgain ==
    /\ pc = "return"
    /\ Len(log) < MaxRounds
    /\ pc' = "call"
    /\ input' = output.urlPath
    /\ output' = NoError
    /\ log' = Append(log, input)
    /\ UNCHANGED <<disk, mdxFiles, idx, files>>

NextPath == NormalizePath \/ NormalizeAgain

SpecPath == InitPath /\ [][NextPath]_vars

(* Title resolver *)

\* the longest body handed to extractTitle
MaxBodyLen == 4

SampleFilePaths ==
    { <<"/", "c", "/", "a", ".", "m", "d">>,
      <<"/", "c", "/", "p", "o", "s", "t", "s", "/", "m", "y", "-", "p", "o", "s", "t", "_", "x", ".", "e", "n", ".", "m", "d", "x">>,
      <<"/", "c", "/", "_", ".", "m", "d">> }

SampleTitleMetadata ==
    { EmptyMetadata,
      [k \in {Title} |-> Str(<<>>)],
      [k \in {Title} |-> Str(<<"T">>)],
      [k \in {Description} |-> Str(<<"d">>)] }

SampleBodies == Concatenations({<<"#">>, <<" ">>, <<"\n">>, <<"a">>}, MaxBodyLen)

InitTitle ==
    /\ pc = "call"
    /\ input \in [filePath : SampleFilePaths, metadata : SampleTitleMetadata,
                  content : SampleBodies]
    /\ output = NoError
    /\ Idle

CallExtractTitle ==
    /\ pc = "call"
    /\ pc' = "return"
    /\ output' = ExtractTitle(input.filePath, input.metadata, input.content)
    /\ UNCHANGED <<input, disk, mdxFiles, idx, files, log>>

NextTitle == CallExtractTitle

SpecTitle == InitTitle /\ [][NextTitle]_vars

(* The two file processors on the same text *)

\* the most fragments a sample text is made of
MaxFragments == 3

SampleFragments ==
    { <<"-", "-", "-", "\n">>,
      <<" ", "-", "-", "-", "\n">>,
      <<"t", "i", "t", "l", "e", ":", " ", "\"", "H", "e", "l", "l", "o", "\"", "\n">>,
      <<"t", "a", "g", "s", ":", " ", "[", "a", ",", " ", "b", "]", "\n">>,
      <<"#", " ", "H", "i", "\n", "B", "o", "d", "y">>,
      <<"<">>,
      <<"<", "A", "/", ">">>,
      <<"A", "/", ">">>,
      <<"<", "A", ">">>,
      <<"x", "<", "/", "A", ">">>,
      <<"i", "m", "p", "o", "r", "t", " ", "F", " ", "f", "r", "o", "m", " ", "'", "y", "'">>,
      <<"e", "x", "p", "o", "r", "t", " ", "c", "o", "n", "s", "t", " ", "m", "e", "t", "a", "d", "a", "t", "a", " ", "=", " ", "{", "t", "i", "t", "l", "e", ":", " ", "'", "X", "'", "}", ";", "\n">> }

SampleSources == Concatenations(SampleFragments, MaxFragments)

NotRun == [metadata |-> EmptyMetadata, content |-> <<>>, ran |-> FALSE]

InitProcess ==
    /\ pc = "call"
    /\ input \in SampleSources
    /\ output = [md |-> NotRun, mdx |-> NotRun]
    /\ Idle

\* processMDFile on a file that holds the text input
CallProcessMDFile ==
    /\ pc = "call"
    /\ ~output.md.ran
    /\ output' = [output EXCEPT !.md =
                    [metadata |-> ProcessMDFile(input).metadata,
                     content |-> ProcessMDFile(input).content, ran |-> TRUE]]
    /\ UNCHANGED <<pc, input, disk, mdxFiles, idx, files, log>>

\* processMDXFile on a file that holds the text input
CallProcessMDXFile ==
    /\ pc = "call"
    /\ ~output.mdx.ran
    /\ output' = [output EXCEPT !.mdx =
                    [metadata |-> ProcessMDXFile(input).metadata,
                     content |-> ProcessMDXFile(input).content, ran |-> TRUE]]
    /\ UNCHANGED <<pc, input, disk, mdxFiles, idx, files, log>>

NextProcess == CallProcessMDFile \/ CallProcessMDXFile

SpecProcess == InitProcess /\ [][NextProcess]_vars


-----------------------------------------------------------------------------
(* Properties *)

LogPositions(op) == {k \in 1..Len(log) : log[k].op = op}

\* the read, push and write events of the log, in order
FileEvents == SelectSeq(log, LAMBDA e : e.op \in {"read", "push", "write"})

\* the events of processing the first k discovered files one after another
EventsOfFirst(k) ==
    [j \in 1..(3 * k) |->
        LET file == mdxFiles[(j + 2) \div 3]
        IN  CASE j % 3 = 1 -> Event("read", file)
              [] j % 3 = 2 -> Event("push", file)
              [] OTHER -> Event("write", OutputMdPath(file))]

IsPrefix(a, b) == Len(a) <= Len(b) /\ a = Slice(b, 1, Len(a))

\* the normalized body of a discovered file
NormalizedBody(file) == ProcessFile(file, disk.source[file]).content

\* C1: when the content directory does not exist, the only step a run takes is
\* the one that fails with "Content directory not found", and that step leaves
\* the filesystem alone: no directory made, no discovery, no read, no write of a
\* document or of llms.txt.
C1_FailFast ==
    [][~disk.contentDirExists =>
          /\ pc = "start"
          /\ pc' = "failed"
          /\ output'.error = "Content directory not found"
          /\ disk' = disk
          /\ log' = log
          /\ mdxFiles' = <<>>
          /\ files' = <<>>]_vars

C1_Witness ==
    /\ ~disk.contentDirExists
    /\ pc = "failed"
    /\ output.error = "Content directory not found"
    /\ disk.dirs = {}

\* C2: once generateLLMsTxt has grouped a manifest, every entry of the manifest
\* is a member of exactly one category group, exactly once, that group is the
\* one named by the entry's category, no two groups have the same name, and
\* the sizes of the groups add up to the length of the manifest.
C2_GroupingIsPartition ==
    pc # "generate" =>
        LET groups == output.filesByCategory
            slots == {<<g, j>> \in (1..Len(groups)) \X (1..Len(files)) :
                         j <= Len(groups[g].members)}
        IN  /\ \A i \in 1..Len(files) :
                  /\ Cardinality({x \in slots : groups[x[1]].members[x[2]] = i}) = 1
                  /\ \A x \in slots :
                         groups[x[1]].members[x[2]] = i =>
                             groups[x[1]].category = files[i].category
            /\ \A g, h \in 1..Len(groups) :
                   groups[g].category = groups[h].category => g = h
            /\ \A g \in 1..Len(groups) : Len(groups[g].members) <= Len(files)
            /\ Cardinality(slots) = Len(files)

C2_Witness ==
    /\ pc = "done"
    /\ Len(files) = 3
    /\ Len(output.filesByCategory) = 2
    /\ \E i, j \in 1..Len(files) :
           i # j /\ files[i].title = files[j].title /\ files[i].url = files[j].url

\* C3: extractTitle returns a non-empty string for every non-empty file path,
\* whatever the metadata and the body.
C3_TitleNeverEmpty ==
    (pc = "return" /\ input.filePath # <<>>) => output # Str(<<>>)

\* C4: a normalized path is a fixed point of the normalization: normalizing the
\* urlPath of a path again gives the same urlPath.
C4_UrlPathIdempotent ==
    (pc = "return" /\ log # <<>>) => output.urlPath = input

\* C5: the category is the first path segment when the file lies inside a
\* directory and "other" when it lies directly in the content root.
C5_Category ==
    pc = "return" =>
        output.category = IF Slashes(input) = {} THEN Other
                          ELSE Slice(input, 1, Min(Slashes(input)) - 1)

\* C6: when the file name, after locale removal and extension rewrite, is
\* index.md or _index.md, the urlPath is the directory joined with the
\* directory's name plus .md for a file inside a directory, and the normalized
\* path itself for a file at the content root; the url is /md/ and the urlPath.
C6_IndexAliasing ==
    LET normalized == RewriteExt(RemoveLocale(input))
        dir == Slice(normalized, 1, Max(Slashes(normalized)) - 1)
    IN  (pc = "return" /\ Basename(normalized, DotMd) \in IndexNames) =>
            /\ output.urlPath =
                   IF Slashes(normalized) = {} THEN normalized
                   ELSE dir \o <<"/">> \o LastSegment(dir) \o DotMd
            /\ output.url = <<"/", "m", "d", "/">> \o output.urlPath

\* C7: after discoverFiles has processed every discovered file, the manifest
\* has one entry per discovered source file, in discovery order, each with the
\* url of its file, also when several files normalize to the same output path;
\* the output file of each holds the normalized body of the last discovered
\* file with that output path.
C7_CollisionPolicy ==
    pc \in {"generate", "done"} =>
        /\ Len(files) = Cardinality({f \in DOMAIN disk.source : Discoverable(f)})
        /\ Len(files) = Len(mdxFiles)
        /\ \A i \in 1..Len(mdxFiles) :
              /\ files[i].relativePath = mdxFiles[i]
              /\ files[i].url = Url(mdxFiles[i])
              /\ OutputMdPath(mdxFiles[i]) \in DOMAIN disk.out
              /\ disk.out[OutputMdPath(mdxFiles[i])] =
                     NormalizedBody(mdxFiles[
                         Max({j \in 1..Len(mdxFiles) :
                                OutputMdPath(mdxFiles[j]) = OutputMdPath(mdxFiles[i])})])

C7_Witness ==
    /\ pc = "done"
    /\ \E i, j \in 1..Len(files) :
          /\ i < j
          /\ files[i].url = files[j].url
          /\ NormalizedBody(mdxFiles[i]) # NormalizedBody(mdxFiles[j])

\* C8: the files are read, pushed and written one after another in discovery
\* order; llms.txt is written at most once, as the last effect, after every
\* discovered file was read, pushed and written; a run that failed at a file
\* has not written llms.txt, has processed no later file, and the output files
\* of the earlier files are on disk.
C8_WriteOrdering ==
    /\ IsPrefix(FileEvents, EventsOfFirst(Len(mdxFiles)))
    /\ Cardinality(LogPositions("llms")) <= 1
    /\ Len(disk.llmsTxt) = Cardinality(LogPositions("llms"))
    /\ LogPositions("llms") # {} =>
          /\ LogPositions("llms") = {Len(log)}
          /\ FileEvents = EventsOfFirst(Len(mdxFiles))
          /\ Len(files) = Len(mdxFiles)
    /\ (pc = "failed" /\ output.at > 0) =>
          /\ LogPositions("llms") = {}
          /\ idx = output.at
          /\ IsPrefix(EventsOfFirst(idx - 1), FileEvents)
          /\ IsPrefix(FileEvents, EventsOfFirst(idx))
          /\ \A i \in 1..(idx - 1) : OutputMdPath(mdxFiles[i]) \in DOMAIN disk.out

C8_Witness ==
    /\ pc = "failed"
    /\ output.at = 2
    /\ output.error \in {"readFileSync", "writeFileSync"}
    /\ OutputMdPath(mdxFiles[1]) \in DOMAIN disk.out
    /\ OutputMdPath(mdxFiles[2]) \notin DOMAIN disk.out

\* two metadata mappings with the same keys and, per key, the same value
SameMetadata(m1, m2) ==
    /\ DOMAIN m1 = DOMAIN m2
    /\ \A k \in DOMAIN m1 : m1[k].kind = m2[k].kind /\ m1[k].val = m2[k].val

\* C9: for a text that starts with a --- delimited block, processMDFile and
\* processMDXFile extract the same metadata mapping.
C9_SameFrontmatter ==
    (output.md.ran /\ output.mdx.ran /\ FrontmatterMatch(input).found) =>
        SameMetadata(output.md.metadata, output.mdx.metadata)

\* C10: the body processMDXFile returns has no white space at either end and
\* holds no paired capitalized tag, no self-closing capitalized tag and no
\* import statement.
C10_BodyIsStripped ==
    output.mdx.ran =>
        LET body == output.mdx.content
        IN  /\ Trim(body) = body
            /\ \A p \in 1..Len(body) :
                  /\ JsxPairEnd(body, p) = 0
                  /\ JsxSelfClosingEnd(body, p) = 0
                  /\ ImportEnd(body, p) = 0


====
